---- MODULE Spec2Model ----
(***************************************************************************)
(* Scan orchestration engine of the desktop scanner service: the          *)
(* WebSocket protocol handler of src/src/main.ts (handleWebSocketConnection*)
(* and performScan) on top of the device enumerator of src/src/utils.ts.  *)
(*                                                                         *)
(* Strings on which the code computes (includes, concatenation,           *)
(* truthiness) are sequences of words; the empty string is <<>>.          *)
(* External processes, the file system and the clock are the environment. *)
(***************************************************************************)
EXTENDS Integers, Sequences, FiniteSets, TLC

VARIABLES
    platform,            \* process.platform, fixed at startup
    clock,               \* Date.now(), in milliseconds
    connState,           \* per connection: "absent", "open", "closed"
    scannerCache,        \* ws.scannerCache, per connection
    lastScannerRequest,  \* ws.lastScannerRequest, per connection
    msgs,                \* one record per inbound message: its handler's state
    outbox               \* per connection: the messages whose envelopes were delivered, in order

vars == <<platform, clock, connState, scannerCache, lastScannerRequest, msgs, outbox>>

(***************************************************************************)
(* Bounds of the model.                                                    *)
(***************************************************************************)
NConn == 2
MaxMsgs == 4
MaxDevs == 2
MaxElapsed == 4000
MaxPolls == 1
MaxScans == 1
MaxEnumMsgs == 1
MaxCrossMsgs == 3
MaxFrameMsgs == 2
MaxOverlap == 2
\* the interval of a polling client, shorter than the throttle
PollInterval == 800

Conns == 1..NConn

(***************************************************************************)
(* Program constants.                                                      *)
(***************************************************************************)
SCANNER_REQUEST_THROTTLE == 2000
SCAN_TIMEOUT == 120000
\* Date.now() when the server starts: any value well above the throttle
Epoch == 1000000

Platforms == {"win32", "darwin", "linux"}

(***************************************************************************)
(* Strings.                                                                *)
(***************************************************************************)
\* String.prototype.includes on word sequences: p occurs contiguously in s
Includes(s, p) ==
    \E i \in 0..(Len(s) - Len(p)) : SubSeq(s, i + 1, i + Len(p)) = p

\* JavaScript truthiness of a string
Truthy(s) == s # <<>>

WIA_SOURCE == <<"\"Source\":\"WIA\"">>
WIA_CONNECTED == <<"\"Status\":\"Connected\"">>
WIA_ID_MARKER == <<"6BDD1FC6-810F-11D0-BEC7-08002BE2092F">>
DEMO_ID == <<"demo-scanner">>
BASE64_PREFIX == "data:image/jpeg;base64,"

(***************************************************************************)
(* Inbound messages and JSON.parse.  A parsed value has a JavaScript type  *)
(* and, for an object, its fields; a field is a scalar [t, s].             *)
(***************************************************************************)
Scalar(t, s) == [t |-> t, s |-> s]
Undefined == Scalar("undefined", <<>>)
Str(s) == Scalar("string", s)
NoFields == [x \in {} |-> Undefined]
Parsed(t, fields) == [ok |-> TRUE, t |-> t, fields |-> fields]
ParseError == [ok |-> FALSE, t |-> "undefined", fields |-> NoFields]

WiaDeviceId == <<"{", "6BDD1FC6-810F-11D0-BEC7-08002BE2092F", "}", "\\0000">>
PnpDeviceId == <<"USB\\VID_04A9&PID_1794">>

GetScanners == "{\"type\":\"get-scanners\"}"
StartScanNoId == "{\"type\":\"start-scan\"}"
StartScanEmptyId == "{\"type\":\"start-scan\",\"deviceId\":\"\"}"
StartScanNumberId == "{\"type\":\"start-scan\",\"deviceId\":7}"
StartScanDemo == "{\"type\":\"start-scan\",\"deviceId\":\"demo-scanner\"}"
StartScanWia ==
    "{\"type\":\"start-scan\",\"deviceId\":\"{6BDD1FC6-810F-11D0-BEC7-08002BE2092F}\\\\0000\"}"
StartScanPnp == "{\"type\":\"start-scan\",\"deviceId\":\"USB\\\\VID_04A9&PID_1794\"}"
\* a WIA id whose backslash reaches the server doubled
WiaDeviceIdDoubled ==
    <<"{", "6BDD1FC6-810F-11D0-BEC7-08002BE2092F", "}", "\\", "\\", "0000">>
StartScanWiaDoubled ==
    "{\"type\":\"start-scan\",\"deviceId\":\"{6BDD1FC6-810F-11D0-BEC7-08002BE2092F}\\\\\\\\0000\"}"

\* inbound messages that are not valid JSON
MalformedMessages == { "not-json", "{\"type\":" }
\* valid JSON whose type is neither get-scanners nor start-scan
UnknownMessages == { "null", "5", "{}", "{\"type\":\"ping\"}" }
StartScanMessages ==
    { StartScanNoId, StartScanEmptyId, StartScanNumberId, StartScanDemo,
      StartScanWia, StartScanWiaDoubled, StartScanPnp }

RawMessages ==
    MalformedMessages \cup UnknownMessages \cup {GetScanners} \cup StartScanMessages

\* JSON.parse succeeds on raw
ValidJSON(raw) == raw \notin MalformedMessages

StartScanMsg(deviceId) ==
    Parsed("object", [k \in {"type", "deviceId"} |->
                        IF k = "type" THEN Str(<<"start-scan">>) ELSE deviceId])

JSONParse(raw) ==
    CASE raw = "null" -> Parsed("null", NoFields)
      [] raw = "5" -> Parsed("number", NoFields)
      [] raw = "{}" -> Parsed("object", NoFields)
      [] raw = "{\"type\":\"ping\"}" ->
            Parsed("object", [k \in {"type"} |-> Str(<<"ping">>)])
      [] raw = GetScanners ->
            Parsed("object", [k \in {"type"} |-> Str(<<"get-scanners">>)])
      [] raw = StartScanNoId ->
            Parsed("object", [k \in {"type"} |-> Str(<<"start-scan">>)])
      [] raw = StartScanEmptyId -> StartScanMsg(Str(<<>>))
      [] raw = StartScanNumberId -> StartScanMsg(Scalar("number", <<"7">>))
      [] raw = StartScanDemo -> StartScanMsg(Str(DEMO_ID))
      [] raw = StartScanWia -> StartScanMsg(Str(WiaDeviceId))
      [] raw = StartScanWiaDoubled -> StartScanMsg(Str(WiaDeviceIdDoubled))
      [] raw = StartScanPnp -> StartScanMsg(Str(PnpDeviceId))
      [] OTHER -> ParseError

\* a property read that never throws
PropNeverThrows(data) == FALSE

\* a property read that throws on everything but an object
PropThrowsOnNonObject(data) == data.t # "object"

\* data.<name>: throws a TypeError on null, is undefined on a missing field
PropThrows(data) == data.t = "null"
Prop(data, name) ==
    IF name \in DOMAIN data.fields THEN data.fields[name] ELSE Undefined

\* a test that takes only a missing value as falsy
FalsyOnlyUndefined(v) == v.t = "undefined"

\* !value for a scalar: undefined, '' and 0 are falsy
Falsy(v) == v.t = "undefined" \/ (v.t = "string" /\ v.s = <<>>)

IsType(data, name) ==
    LET ty == Prop(data, "type") IN ty.t = "string" /\ ty.s = <<name>>

(***************************************************************************)
(* Envelopes and error texts.                                              *)
(***************************************************************************)
ErrorEnvelope(error) == [type |-> "error", error |-> error]
ScannersList(devices) == [type |-> "scanners-list", data |-> devices]
ScanComplete(base64) ==
    [type |-> "scan-complete", data |-> [success |-> TRUE, base64 |-> base64]]

InvalidMessageFormat == <<"Invalid", "message", "format">>
UnknownMessageType == <<"Unknown", "message", "type">>
NoDeviceIdProvided == <<"No", "device", "ID", "provided">>
IncludesNotAFunction == <<"data.deviceId.includes", "is", "not", "a", "function">>
FailedToGetScannerList == <<"Failed", "to", "get", "scanner", "list">>

\* String.prototype.toLowerCase, word by word
LowerWord(w) ==
    CASE w = "No" -> "no"
      [] w = "ID" -> "id"
      [] w = "Access" -> "access"
      [] w = "Scanner" -> "scanner"
      [] w = "Failed" -> "failed"
      [] OTHER -> w
ToLowerCase(s) == [i \in 1..Len(s) |-> LowerWord(s[i])]

(***************************************************************************)
(* Error classification.                                                   *)
(***************************************************************************)
ScannerTimeout == <<"Scanner", "timeout", "-", "no", "response", "from", "device">>
ScannerInUse == <<"Scanner", "is", "in", "use", "by", "another", "application">>
NoDocument == <<"No", "document", "in", "scanner">>
AccessDeniedAdmin == <<"Access", "denied", "-", "please", "run", "as", "administrator">>
InvalidImageData == <<"Invalid", "image", "data", "received", "from", "scanner">>
FailedDemoScan == <<"Failed", "to", "create", "demo", "scan">>
NoDataReturned == <<"Scanner", "did", "not", "return", "any", "data">>

\* a classification that tests 'Access is denied' before the result codes
ClassifyAccessFirst(errorMessage) ==
    IF Includes(errorMessage, <<"Access", "is", "denied">>) THEN AccessDeniedAdmin
    ELSE IF Includes(errorMessage, <<"Result", "code:", "0x80210015">>) THEN ScannerInUse
    ELSE IF Includes(errorMessage, <<"Result", "code:", "0x80210006">>) THEN NoDocument
    ELSE errorMessage

\* performScan: the Error a failed scan process is rejected with
ClassifyScanError(errorMessage) ==
    IF Includes(errorMessage, <<"Result", "code:", "0x80210015">>) THEN ScannerInUse
    ELSE IF Includes(errorMessage, <<"Result", "code:", "0x80210006">>) THEN NoDocument
    ELSE IF Includes(errorMessage, <<"Access", "is", "denied">>) THEN AccessDeniedAdmin
    ELSE errorMessage

\* start-scan, inner catch: the text of the error envelope
InnerCatchMessage(errorStr) ==
    IF Includes(errorStr, <<"Access", "is", "denied">>)
    THEN <<"Access", "denied.", "Please", "run", "the", "application", "as",
           "administrator.">>
    ELSE IF Includes(errorStr, <<"Device", "not", "found">>)
            \/ Includes(errorStr, <<"No", "compatible", "WIA", "scanner">>)
    THEN <<"Scanner", "not", "found", "or", "not", "compatible.", "Please", "check",
           "if", "it", "is", "properly", "connected.">>
    ELSE IF Includes(errorStr, <<"Device", "is", "busy">>)
            \/ Includes(errorStr, <<"being", "used", "by", "another", "application">>)
    THEN <<"Scanner", "is", "busy", "or", "in", "use", "by", "another",
           "application.", "Please", "wait", "and", "try", "again.">>
    ELSE IF Includes(errorStr, <<"empty", "file">>)
    THEN <<"Scanner", "failed", "to", "produce", "a", "valid", "image.", "Please",
           "check", "if", "there", "is", "a", "document", "in", "the", "scanner.">>
    ELSE <<"Scanning", "failed:">> \o errorStr

\* start-scan, outer catch: the text of the error envelope
OuterCatchMessage(errorMessage) ==
    LET lower == ToLowerCase(errorMessage) IN
    IF Includes(lower, <<"access">>) \/ Includes(lower, <<"permission">>)
    THEN <<"Scanner", "access", "denied.", "Please", "ensure", "you", "have",
           "administrator", "privileges", "or", "proper", "permissions.">>
    ELSE IF Includes(lower, <<"busy">>)
    THEN <<"Scanner", "is", "busy", "or", "in", "use", "by", "another",
           "application.">>
    ELSE IF Includes(lower, <<"not", "found">>) \/ Includes(lower, <<"no", "scanner">>)
    THEN <<"Scanner", "not", "found.", "Please", "check", "if", "it", "is",
           "properly", "connected", "and", "powered", "on.">>
    ELSE <<"Scanning", "failed:">> \o errorMessage
           \o <<"Please", "check", "scanner", "connection", "and", "try", "again.">>

(***************************************************************************)
(* Outcomes of the scan child process (exec callback arguments).           *)
(***************************************************************************)
StderrTexts ==
    { <<"Exception", "Result", "code:", "0x80210015">>,
      <<"Exception", "Result", "code:", "0x80210006">>,
      <<"Access", "is", "denied">>,
      <<"Device", "is", "busy">>,
      <<"Device", "not", "found">>,
      <<"[SCAN]", "Failed", "to", "connect", "to", "scanner:", "No", "matching",
        "scanner", "device", "found">>,
      <<"Access", "is", "denied", "Result", "code:", "0x80210006">>,
      <<"Result", "code:", "0x80210006", "Result", "code:", "0x80210015">>,
      <<"Paper", "jam">> }

ScanFailures ==
    { [error |-> TRUE, stdout |-> <<>>, stderr |-> e,
       message |-> <<"Command", "failed:">> \o e] : e \in StderrTexts }
    \cup { [error |-> TRUE, stdout |-> <<>>, stderr |-> <<>>, message |-> e] :
             e \in { <<"stdout", "maxBuffer", "length", "exceeded">>,
                     <<"spawn", "powershell", "Access", "is", "denied">> } }

ScanStdouts ==
    { <<"[SCAN]", "Transfer", "successful", BASE64_PREFIX, "/9j/4AAQ">>,
      <<"[SCAN]", "Transfer", "successful", BASE64_PREFIX>>,
      <<"[SCAN]", "Transfer", "successful">>,
      <<>> }

ScanSuccesses ==
    { [error |-> FALSE, stdout |-> o, stderr |-> <<>>, message |-> <<>>] :
        o \in ScanStdouts }

ScanOutcomes == ScanFailures \cup ScanSuccesses

\* words made of one or more characters of [\w+/=]
Base64Words == {"/9j/4AAQ"}

\* output.match(/(data:image\/jpeg;base64,[\w+/=]+)/): the positions of a match
Base64Matches(output) ==
    { i \in 1..(Len(output) - 1) :
        output[i] = BASE64_PREFIX /\ output[i + 1] \in Base64Words }

\* base64Match[1] of the first match
Base64Match(output) ==
    LET i == CHOOSE j \in Base64Matches(output) :
                 \A k \in Base64Matches(output) : j <= k
    IN  <<output[i], output[i + 1]>>

(***************************************************************************)
(* The device-listing backend and listScanners.                            *)
(***************************************************************************)
SeqsUpTo(U, n) == UNION { [1..k -> U] : k \in 0..n }

BackendDevice(id, name, desc, type, source, status) ==
    [DeviceID |-> id, Name |-> name, Description |-> desc, Type |-> type,
     Source |-> source, Status |-> status]

WiaCanon ==
    BackendDevice(WiaDeviceId, <<"Canon", "LiDE">>, <<"Canon", "LiDE", "220">>,
                  <<"Scanner">>, "WIA", "Connected")
WiaEpson ==
    BackendDevice(<<"{", "6BDD1FC6-810F-11D0-BEC7-08002BE2092F", "}", "\\0001">>,
                  <<"Epson", "Perfection">>, <<>>, <<"Scanner">>, "WIA", "Disconnected")
PnpCanon ==
    BackendDevice(PnpDeviceId, <<"Canon", "LiDE">>, <<"USB", "scanner">>, <<"Image">>,
                  "PnP", "Connected")
\* a second WIA device and a second plug-and-play device with the name of the first
WiaCanonB ==
    BackendDevice(<<"{", "6BDD1FC6-810F-11D0-BEC7-08002BE2092F", "}", "\\0002">>,
                  <<"Canon", "LiDE">>, <<"Canon", "LiDE", "300">>, <<"Scanner">>,
                  "WIA", "Connected")
PnpCanonB ==
    BackendDevice(<<"USB\\VID_04A9&PID_1912">>, <<"Canon", "LiDE">>, <<"USB", "scanner">>,
                  <<"Image">>, "PnP", "Connected")
PnpNoId ==
    BackendDevice(<<>>, <<"HP", "ScanJet">>, <<>>, <<"Image">>, "PnP", "Connected")
PnpNoName ==
    BackendDevice(<<"USB\\VID_03F0&PID_0C17">>, <<>>, <<"HP", "ScanJet">>, <<"Image">>,
                  "PnP", "Connected")
EmptyRecord == BackendDevice(<<>>, <<>>, <<>>, <<>>, "", "")

\* records the Windows listing helper can print
BackendDevices ==
    { WiaCanon, WiaCanonB, WiaEpson, PnpCanon, PnpCanonB, PnpNoId, PnpNoName,
      EmptyRecord }

\* JSON.stringify({...device, source, status})
JSONStringify(device) ==
    LET src == CASE device.Source = "WIA" -> <<"\"Source\":\"WIA\"">>
                 [] device.Source = "PnP" -> <<"\"Source\":\"PnP\"">>
                 [] OTHER -> <<>>
        st == CASE device.Status = "Connected" -> <<"\"Status\":\"Connected\"">>
                [] device.Status = "Disconnected" -> <<"\"Status\":\"Disconnected\"">>
                [] OTHER -> <<>>
        body == (IF Truthy(device.DeviceID) THEN <<"\"DeviceID\":">> \o device.DeviceID
                 ELSE <<>>)
                \o (IF Truthy(device.Name) THEN <<"\"Name\":">> \o device.Name ELSE <<>>)
                \o src \o st
    IN  IF body = <<>> THEN <<"{}">> ELSE <<"{">> \o body \o <<"}">>

SaneCanon ==
    <<"device", "`pixma:04A91794_261A03'", "is", "a", "CANON", "Canon", "PIXMA">>
SaneEpson == <<"device", "`epson2:libusb:001:004'", "is", "a", "Epson", "Perfection">>
SaneNoise == <<"scanimage:", "no", "SANE", "devices", "found">>

\* lines `scanimage -L` can print
SaneLines == { SaneCanon, SaneEpson, SaneNoise }

ScannerDevice(id, name, model, rawInfo) ==
    [id |-> id, name |-> name, model |-> model, rawInfo |-> rawInfo]

\* line.match(/device `([^']+)' is a (.+)/)
SaneLineMatches(line) ==
    Len(line) >= 5 /\ line[1] = "device" /\ line[3] = "is" /\ line[4] = "a"

parseSANEDeviceLine(line) ==
    ScannerDevice(<<line[2]>>, SubSeq(line, 5, Len(line)),
                  SubSeq(line, 6, Len(line)), line)

\* what a listing process can end with: its error, and its standard output
\* the listing process exits with an error
ListError ==
    [error |-> TRUE, parsable |-> (platform # "win32"), records |-> <<>>]

\* the listing process exits cleanly and prints the records r
Listed(r) == [error |-> FALSE, parsable |-> TRUE, records |-> r]

ListOutcomes ==
    IF platform = "win32"
    THEN { ListError, [error |-> FALSE, parsable |-> FALSE, records |-> <<>>] }
         \cup { Listed(r) : r \in SeqsUpTo(BackendDevices, MaxDevs) }
    ELSE { ListError } \cup { Listed(r) : r \in SeqsUpTo(SaneLines, MaxDevs) }

\* listScanners: the value the promise resolves with when the listing process ends
ListingResult(outcome) ==
    IF outcome.error \/ ~outcome.parsable THEN <<>>
    ELSE IF platform = "win32"
    THEN [i \in 1..Len(outcome.records) |->
            LET device == outcome.records[i] IN
            ScannerDevice(device.DeviceID, device.Name,
                          IF Truthy(device.Description) THEN device.Description
                          ELSE device.Type,
                          JSONStringify(device))]
    ELSE LET lines == SelectSeq(outcome.records, SaneLineMatches)
         IN  [i \in 1..Len(lines) |-> parseSANEDeviceLine(lines[i])]

(***************************************************************************)
(* get-scanners: filter, deduplicate, substitute the sentinel, sort.       *)
(***************************************************************************)
IsWIA(rawInfo) == Includes(rawInfo, WIA_SOURCE)

\* the filter without its test of the name
ValidScannerIgnoringName(s) ==
    Truthy(s.id) /\ Truthy(s.rawInfo) /\ s.rawInfo # <<"{}">>

ValidScanner(s) ==
    Truthy(s.id) /\ Truthy(s.name) /\ Truthy(s.rawInfo) /\ s.rawInfo # <<"{}">>

\* a reduce that keeps the first record of every name
RECURSIVE DedupKeepFirst(_, _, _)
DedupKeepFirst(unique, scanners, i) ==
    IF i > Len(scanners) THEN unique
    ELSE IF \E k \in 1..Len(unique) : unique[k].name = scanners[i].name
    THEN DedupKeepFirst(unique, scanners, i + 1)
    ELSE DedupKeepFirst(Append(unique, scanners[i]), scanners, i + 1)

RECURSIVE DedupReduce(_, _, _)
DedupReduce(unique, scanners, i) ==
    IF i > Len(scanners) THEN unique
    ELSE LET scanner == scanners[i]
             same == { k \in 1..Len(unique) : unique[k].name = scanner.name }
         IN  IF same # {}
             THEN LET existingIndex == CHOOSE k \in same : \A j \in same : k <= j
                      existingIsWIA == IsWIA(unique[existingIndex].rawInfo)
                      newIsWIA == IsWIA(scanner.rawInfo)
                  IN  DedupReduce(
                        IF newIsWIA /\ ~existingIsWIA
                        THEN [unique EXCEPT ![existingIndex] = scanner]
                        ELSE unique,
                        scanners, i + 1)
             ELSE DedupReduce(Append(unique, scanner), scanners, i + 1)

validScanners(scanners) == DedupReduce(<<>>, SelectSeq(scanners, ValidScanner), 1)

DemoScanner ==
    ScannerDevice(DEMO_ID, <<"Demo", "Scanner">>,
                  <<"Demo", "Model", "(No", "physical", "scanner", "found)">>,
                  <<"Demo", "scanner", "for", "testing", "when", "no", "physical",
                    "scanner", "is", "available">>)

\* the list without the sentinel substitution
deviceListNoSentinel(scanners) == validScanners(scanners)

deviceList(scanners) ==
    IF Len(validScanners(scanners)) > 0 THEN validScanners(scanners)
    ELSE <<DemoScanner>>

\* collation rank of the words that occur in device names
WordRank(w) ==
    CASE w = "Canon" -> 1 [] w = "CANON" -> 2 [] w = "Demo" -> 3 [] w = "Epson" -> 4
      [] w = "HP" -> 5 [] w = "LiDE" -> 6 [] w = "Perfection" -> 7
      [] w = "PIXMA" -> 8 [] w = "ScanJet" -> 9 [] w = "Scanner" -> 10
      [] OTHER -> 0

\* a.localeCompare(b): negative, zero or positive
RECURSIVE localeCompare(_, _)
localeCompare(a, b) ==
    IF a = <<>> /\ b = <<>> THEN 0
    ELSE IF a = <<>> THEN -1
    ELSE IF b = <<>> THEN 1
    ELSE IF WordRank(Head(a)) # WordRank(Head(b))
    THEN WordRank(Head(a)) - WordRank(Head(b))
    ELSE localeCompare(Tail(a), Tail(b))

\* a comparator that orders by name alone
CompareByNameOnly(a, b) == localeCompare(a.name, b.name)

\* the comparator of deviceList.sort
CompareDevices(a, b) ==
    LET aIsWIA == IsWIA(a.rawInfo)
        bIsWIA == IsWIA(b.rawInfo)
    IN  IF aIsWIA # bIsWIA THEN (IF aIsWIA THEN -1 ELSE 1)
        ELSE localeCompare(a.name, b.name)

\* Array.prototype.sort (stable): insertion into the sorted prefix
RECURSIVE InsertSorted(_, _)
InsertSorted(sorted, d) ==
    IF sorted = <<>> THEN <<d>>
    ELSE IF CompareDevices(d, sorted[Len(sorted)]) < 0
    THEN Append(InsertSorted(SubSeq(sorted, 1, Len(sorted) - 1), d),
                sorted[Len(sorted)])
    ELSE Append(sorted, d)

RECURSIVE SortFrom(_, _, _)
SortFrom(sorted, devices, i) ==
    IF i > Len(devices) THEN sorted
    ELSE SortFrom(InsertSorted(sorted, devices[i]), devices, i + 1)

sortedDevices(scanners) == SortFrom(<<>>, deviceList(scanners), 1)

\* sortedDevices.map(s => `${s.id}:${source}`).join(',')
RECURSIVE JoinKeys(_, _)
JoinKeys(devices, i) ==
    IF i > Len(devices) THEN <<>>
    ELSE (IF i > 1 THEN <<",">> ELSE <<>>)
         \o devices[i].id
         \o <<":", IF IsWIA(devices[i].rawInfo) THEN "WIA" ELSE "OTHER">>
         \o JoinKeys(devices, i + 1)

scannerKey(devices) == JoinKeys(devices, 1)

(***************************************************************************)
(* Handlers.  A record of msgs is the state of the handler of one inbound  *)
(* message: pc is the await it is suspended at ("done" once it returned),  *)
(* spawned the external processes it started, sent the envelopes it handed *)
(* to ws.send; scanners is what listScanners resolved with; isHandled,     *)
(* timer, deadline and proc belong to performScan.                         *)
(***************************************************************************)
NewMsg(c, raw) ==
    [conn |-> c, raw |-> raw, at |-> clock, pc |-> "done", scanners |-> <<>>,
     scanDeviceId |-> <<>>, command |-> <<>>,
     isHandled |-> FALSE, timer |-> "none", deadline |-> 0, proc |-> "none",
     spawned |-> <<>>, sent |-> <<>>]

Send(m, envelope) == [m EXCEPT !.sent = Append(@, envelope)]
sendError(m, error) == Send(m, ErrorEnvelope(error))

\* ws.send delivers only on an open socket
OutboxAfter(h, before, after) ==
    IF connState[before.conn] = "open" /\ Len(after.sent) > Len(before.sent)
    THEN [outbox EXCEPT ![before.conn] = Append(@, h)]
    ELSE outbox

\* a handler that closes the socket after it sent an error envelope
SocketClosedOnError(before, after) ==
    IF /\ Len(after.sent) > Len(before.sent)
       /\ after.sent[Len(after.sent)].type = "error"
    THEN [connState EXCEPT ![before.conn] = "closed"]
    ELSE connState

\* the socket after a step of a handler: handlers call ws.send only, never
\* ws.close or ws.terminate, and ws.send does not throw on a closed socket
SocketAfter(before, after) == connState

\* the throttle window one millisecond short
ThrottledOffByOne(now, last) == now - last < SCANNER_REQUEST_THROTTLE - 1

\* now - (ws.lastScannerRequest || 0) < SCANNER_REQUEST_THROTTLE
\* a throttle that lets every request pass
ThrottledNever(now, last) == FALSE

Throttled(now, last) == now - last < SCANNER_REQUEST_THROTTLE

\* listScanners(): the first process it starts
StartListing(m) ==
    IF platform = "win32"
    THEN [m EXCEPT !.pc = "list", !.spawned = Append(@, "list")]
    ELSE [m EXCEPT !.pc = "listVersion", !.spawned = Append(@, "list-version")]

\* a handler that stores the time of every get-scanners request, dropped or not
OnMessageAnchorsReceived(m, last) ==
    LET data == JSONParse(m.raw) IN
    IF ~data.ok \/ PropThrows(data)
    THEN [m |-> sendError(m, InvalidMessageFormat), last |-> last]
    ELSE IF IsType(data, "get-scanners")
    THEN IF Throttled(clock, last)
         THEN [m |-> m, last |-> clock]
         ELSE [m |-> StartListing(m), last |-> clock]
    ELSE IF IsType(data, "start-scan")
    THEN IF Falsy(Prop(data, "deviceId"))
         THEN [m |-> sendError(m, OuterCatchMessage(NoDeviceIdProvided)), last |-> last]
         ELSE [m |-> StartListing(m), last |-> last]
    ELSE [m |-> sendError(m, UnknownMessageType), last |-> last]

\* a handler in which a start-scan that runs an enumeration stores its time
OnMessageScanStamps(m, last) ==
    LET data == JSONParse(m.raw) IN
    IF ~data.ok \/ PropThrows(data)
    THEN [m |-> sendError(m, InvalidMessageFormat), last |-> last]
    ELSE IF IsType(data, "get-scanners")
    THEN IF Throttled(clock, last)
         THEN [m |-> m, last |-> last]
         ELSE [m |-> StartListing(m), last |-> clock]
    ELSE IF IsType(data, "start-scan")
    THEN IF Falsy(Prop(data, "deviceId"))
         THEN [m |-> sendError(m, OuterCatchMessage(NoDeviceIdProvided)), last |-> last]
         ELSE [m |-> StartListing(m), last |-> clock]
    ELSE [m |-> sendError(m, UnknownMessageType), last |-> last]

\* the message handler up to its first await: the handler and the timestamp after it
OnMessage(m, last) ==
    LET data == JSONParse(m.raw) IN
    IF ~data.ok \/ PropThrows(data)
    THEN [m |-> sendError(m, InvalidMessageFormat), last |-> last]
    ELSE IF IsType(data, "get-scanners")
    THEN IF Throttled(clock, last)
         THEN [m |-> m, last |-> last]
         ELSE [m |-> StartListing(m), last |-> clock]
    ELSE IF IsType(data, "start-scan")
    THEN IF Falsy(Prop(data, "deviceId"))
         THEN [m |-> sendError(m, OuterCatchMessage(NoDeviceIdProvided)), last |-> last]
         ELSE [m |-> StartListing(m), last |-> last]
    ELSE [m |-> sendError(m, UnknownMessageType), last |-> last]

\* a resolution that substitutes the first WIA record whatever its status
ResolveToAnyWia(deviceId, scanners) ==
    LET wia == { i \in 1..Len(scanners) : Includes(scanners[i].rawInfo, WIA_SOURCE) }
    IN  IF ~Includes(deviceId, WIA_ID_MARKER) /\ wia # {}
        THEN scanners[CHOOSE i \in wia : \A j \in wia : i <= j].id
        ELSE deviceId

\* start-scan: the device id handed to performScan
ResolveDeviceId(deviceId, scanners) ==
    LET wia == { i \in 1..Len(scanners) :
                   /\ Includes(scanners[i].rawInfo, WIA_SOURCE)
                   /\ Includes(scanners[i].rawInfo, WIA_CONNECTED) }
    IN  IF ~Includes(deviceId, WIA_ID_MARKER) /\ wia # {}
        THEN scanners[CHOOSE i \in wia : \A j \in wia : i <= j].id
        ELSE deviceId

\* deviceId.replace(/\\\\/g, '\\'): every pair of backslashes becomes one
RECURSIVE CollapseBackslashes(_)
CollapseBackslashes(s) ==
    IF s = <<>> THEN <<>>
    ELSE IF Len(s) >= 2 /\ s[1] = "\\" /\ s[2] = "\\"
    THEN <<"\\">> \o CollapseBackslashes(SubSeq(s, 3, Len(s)))
    ELSE <<s[1]>> \o CollapseBackslashes(Tail(s))

\* arg.replace(/'/g, "'\\''") between single quotes
RECURSIVE EscapeQuotes(_)
EscapeQuotes(s) ==
    IF s = <<>> THEN <<>>
    ELSE (IF s[1] = "'" THEN <<"'", "\\", "'", "'">> ELSE <<s[1]>>)
         \o EscapeQuotes(Tail(s))

escapeShellArg(arg) == <<"'">> \o EscapeQuotes(arg) \o <<"'">>

\* the command line of the scan process
constructScanCommand(deviceId, outputPath) ==
    IF platform = "win32"
    THEN <<"powershell", "-NoProfile", "-NonInteractive", "-ExecutionPolicy",
           "Bypass", "-File", "scan.ps1", "-deviceId", "\"">>
         \o CollapseBackslashes(deviceId) \o <<"\"", "-outputPath", "\"unused\"">>
    ELSE <<"scanimage", "-d">> \o escapeShellArg(deviceId)
         \o <<"--format=jpeg", "--mode", "Color", "--resolution", "300",
              "--progress", "--output-file=">> \o escapeShellArg(outputPath)

\* a performScan that starts the scan process twice
StartScanTwice(m, scanDeviceId) ==
    [m EXCEPT !.scanDeviceId = scanDeviceId, !.pc = "scan",
              !.command = constructScanCommand(scanDeviceId, <<"unused">>),
              !.timer = "armed", !.deadline = clock + SCAN_TIMEOUT,
              !.proc = "running", !.spawned = @ \o <<"scan", "scan">>]

\* a performScan that refuses a device whose scan process is still running
StartScanGuarded(m, scanDeviceId) ==
    IF \E h \in 1..Len(msgs) :
          msgs[h].proc = "running" /\ msgs[h].scanDeviceId = scanDeviceId
    THEN [sendError(m, InnerCatchMessage(ScannerInUse))
            EXCEPT !.scanDeviceId = scanDeviceId, !.pc = "done"]
    ELSE [m EXCEPT !.scanDeviceId = scanDeviceId, !.pc = "scan",
                   !.command = constructScanCommand(scanDeviceId, <<"unused">>),
                   !.timer = "armed", !.deadline = clock + SCAN_TIMEOUT,
                   !.proc = "running", !.spawned = Append(@, "scan")]

\* performScan up to its first await
StartScan(m, scanDeviceId) ==
    IF scanDeviceId = DEMO_ID
    THEN [m EXCEPT !.scanDeviceId = scanDeviceId, !.pc = "demoCreate",
                   !.spawned = IF platform = "darwin" THEN Append(@, "sips") ELSE @]
    ELSE [m EXCEPT !.scanDeviceId = scanDeviceId, !.pc = "scan",
                   !.command = constructScanCommand(scanDeviceId, <<"unused">>),
                   !.timer = "armed", !.deadline = clock + SCAN_TIMEOUT,
                   !.proc = "running", !.spawned = Append(@, "scan")]

\* a reply that reports an empty listing as an error
ReplyErrorWhenEmpty(m, scanners) ==
    IF scanners = <<>>
    THEN [sendError(m, FailedToGetScannerList) EXCEPT !.pc = "done"]
    ELSE [Send(m, ScannersList(sortedDevices(scanners))) EXCEPT !.pc = "done"]

\* a reply withheld when the fingerprint of the list equals the stored one
ReplyUnlessCached(m, scanners) ==
    IF scannerKey(sortedDevices(scanners)) = scannerCache[m.conn]
    THEN [m EXCEPT !.pc = "done"]
    ELSE [Send(m, ScannersList(sortedDevices(scanners))) EXCEPT !.pc = "done"]

\* get-scanners: ws.send of the scanners-list envelope
ReplyScannersList(m, scanners) ==
    [Send(m, ScannersList(sortedDevices(scanners))) EXCEPT !.pc = "done"]

\* the handler after `await listScanners()` resolved with scanners
AfterListing(m, scanners) ==
    LET data == JSONParse(m.raw) IN
    IF IsType(data, "get-scanners")
    THEN ReplyScannersList(m, scanners)
    ELSE IF Prop(data, "deviceId").t # "string"
    THEN [sendError(m, OuterCatchMessage(IncludesNotAFunction)) EXCEPT !.pc = "done"]
    ELSE StartScan(m, ResolveDeviceId(Prop(data, "deviceId").s, scanners))

\* a cache that keeps the fingerprint of the first list it has seen
CacheKeepsFirst(m, scanners, cache) ==
    IF IsType(JSONParse(m.raw), "get-scanners") /\ cache = <<>>
    THEN scannerKey(sortedDevices(scanners))
    ELSE cache

\* ws.scannerCache after the get-scanners handler resumed
CacheAfterListing(m, scanners, cache) ==
    IF IsType(JSONParse(m.raw), "get-scanners")
       /\ cache # scannerKey(sortedDevices(scanners))
    THEN scannerKey(sortedDevices(scanners))
    ELSE cache

\* an inner catch that reports the rejection and throws it on to the outer catch
ScanRejectedTwice(m, error) ==
    [sendError(sendError(m, InnerCatchMessage(error)), OuterCatchMessage(error))
        EXCEPT !.pc = "done"]

\* the rejection of performScan as seen by the client: inner catch of start-scan
ScanRejected(m, error) ==
    [sendError(m, InnerCatchMessage(error)) EXCEPT !.pc = "done"]

\* the setTimeout callback of performScan
OnScanTimeout(m) ==
    IF ~m.isHandled
    THEN [ScanRejected(m, ScannerTimeout) EXCEPT !.isHandled = TRUE, !.timer = "fired"]
    ELSE [m EXCEPT !.timer = "fired"]

\* clearTimeout(scanTimeout) at the head of the exec callback
\* an exec callback that leaves the timer armed
ClearTimeoutForgets(m) == [m EXCEPT !.proc = "exited"]

ClearTimeout(m) ==
    [m EXCEPT !.proc = "exited", !.timer = IF @ = "armed" THEN "cleared" ELSE @]

\* an exec callback that takes the whole standard output of a clean exit as the image
ScanCompletedUnchecked(m, outcome) ==
    LET handled == [m EXCEPT !.isHandled = TRUE]
    IN  IF outcome.error
        THEN ScanRejected(handled,
                ClassifyScanError(IF Truthy(outcome.stderr) THEN outcome.stderr
                                  ELSE outcome.message))
        ELSE [Send(handled, ScanComplete(outcome.stdout)) EXCEPT !.pc = "done"]

\* the exec callback of performScan past `if (isHandled) return`
ScanCompleted(m, outcome) ==
    LET handled == [m EXCEPT !.isHandled = TRUE]
    IN  IF outcome.error
        THEN ScanRejected(handled,
                ClassifyScanError(IF Truthy(outcome.stderr) THEN outcome.stderr
                                  ELSE outcome.message))
        ELSE IF Base64Matches(outcome.stdout) = {}
        THEN ScanRejected(handled, InvalidImageData)
        ELSE IF ~Truthy(Base64Match(outcome.stdout))
        THEN ScanRejected(handled, NoDataReturned)
        ELSE [Send(handled, ScanComplete(Base64Match(outcome.stdout)))
                EXCEPT !.pc = "done"]

\* the exec callback without the isHandled guard
OnScanExitUnguarded(m, outcome) == ScanCompleted(ClearTimeout(m), outcome)

\* the exec callback of performScan
OnScanExit(m, outcome) ==
    IF m.isHandled THEN ClearTimeout(m)
    ELSE ScanCompleted(ClearTimeout(m), outcome)

\* createDemoScan settled
OnDemoCreated(m, ok) ==
    IF ok THEN [m EXCEPT !.pc = "demoRead"]
    ELSE ScanRejected(m, FailedDemoScan)

\* fs.promises.readFile(demoPath) settled; content is the file as base64
OnDemoRead(m, ok, content) ==
    IF ok THEN [Send(m, ScanComplete(<<BASE64_PREFIX>> \o content)) EXCEPT !.pc = "done"]
    ELSE ScanRejected(m, FailedDemoScan)

DemoContents == { <<"/9j/4AAQ">>, <<>> }

(***************************************************************************)
(* The state machine.                                                      *)
(***************************************************************************)
Init ==
    /\ platform \in Platforms
    /\ clock = Epoch
    /\ connState = [c \in Conns |-> "absent"]
    /\ scannerCache = [c \in Conns |-> <<>>]
    /\ lastScannerRequest = [c \in Conns |-> 0]
    /\ msgs = <<>>
    /\ outbox = [c \in Conns |-> <<>>]

\* wss.on('connection', handleWebSocketConnection)
Connect(c) ==
    /\ connState[c] = "absent"
    /\ connState' = [connState EXCEPT ![c] = "open"]
    /\ scannerCache' = [scannerCache EXCEPT ![c] = <<>>]
    /\ lastScannerRequest' = [lastScannerRequest EXCEPT ![c] = 0]
    /\ UNCHANGED <<platform, clock, msgs, outbox>>

\* a close listener that ends the scans of the connection and settles them
OnCloseCancelsScans(c) ==
    [h \in 1..Len(msgs) |->
        IF msgs[h].conn = c /\ msgs[h].proc = "running"
        THEN [msgs[h] EXCEPT !.proc = "exited", !.timer = "cleared",
                             !.isHandled = TRUE, !.pc = "done"]
        ELSE msgs[h]]

\* ws.on('close'): the listener only logs, the handlers in flight stay as they are
OnClose(c) == msgs

\* the client closes the connection
ClientClose(c) ==
    /\ connState[c] = "open"
    /\ connState' = [connState EXCEPT ![c] = "closed"]
    /\ msgs' = OnClose(c)
    /\ UNCHANGED <<platform, clock, scannerCache, lastScannerRequest, outbox>>

TimerPending == \E h \in 1..Len(msgs) : msgs[h].timer = "armed" /\ msgs[h].deadline > clock

Tick(d) ==
    /\ clock + d <= Epoch + MaxElapsed \/ TimerPending
    /\ clock' = clock + d
    /\ UNCHANGED <<platform, connState, scannerCache, lastScannerRequest, msgs, outbox>>

\* a throttle timestamp kept once for the whole server: the latest of any connection
LastRequestOfServer(c) ==
    CHOOSE t \in { lastScannerRequest[d] : d \in Conns } :
        \A d \in Conns : lastScannerRequest[d] <= t

\* ws.lastScannerRequest of the connection the message arrived on
LastRequest(c) == lastScannerRequest[c]

\* ws.on('message'): the handler runs to its first await
Receive(c, raw) ==
    /\ connState[c] = "open"
    /\ Len(msgs) < MaxMsgs
    /\ LET h == Len(msgs) + 1
           r == OnMessage(NewMsg(c, raw), LastRequest(c))
       IN  /\ msgs' = Append(msgs, r.m)
           /\ lastScannerRequest' = [lastScannerRequest EXCEPT ![c] = r.last]
           /\ outbox' = OutboxAfter(h, NewMsg(c, raw), r.m)
           /\ connState' = SocketAfter(NewMsg(c, raw), r.m)
    /\ UNCHANGED <<platform, clock, scannerCache>>

\* the handler of message h resumes with the result of listScanners
Resume(h, scanners) ==
    LET m == [msgs[h] EXCEPT !.scanners = scanners]
        after == AfterListing(m, scanners)
    IN  /\ msgs' = [msgs EXCEPT ![h] = after]
        /\ scannerCache' = [scannerCache EXCEPT
                              ![m.conn] = CacheAfterListing(m, scanners, @)]
        /\ outbox' = OutboxAfter(h, msgs[h], after)
        /\ connState' = SocketAfter(msgs[h], after)
        /\ UNCHANGED <<platform, clock, lastScannerRequest>>

\* `scanimage -V` ends: with an error listScanners resolves [], else it lists
ListVersionExit(h, error) ==
    /\ h \in 1..Len(msgs)
    /\ msgs[h].pc = "listVersion"
    /\ IF error THEN Resume(h, <<>>)
       ELSE /\ msgs' = [msgs EXCEPT ![h].pc = "list", ![h].spawned = Append(@, "list")]
            /\ UNCHANGED <<platform, clock, connState, scannerCache,
                           lastScannerRequest, outbox>>

\* the listing process ends
ListExit(h, outcome) ==
    /\ h \in 1..Len(msgs)
    /\ msgs[h].pc = "list"
    /\ Resume(h, ListingResult(outcome))

\* the settled handler of message h replaces its state, sending what it sent
Settle(h, after) ==
    /\ msgs' = [msgs EXCEPT ![h] = after]
    /\ outbox' = OutboxAfter(h, msgs[h], after)
    /\ connState' = SocketAfter(msgs[h], after)
    /\ UNCHANGED <<platform, clock, scannerCache, lastScannerRequest>>

ScanExit(h, outcome) ==
    /\ h \in 1..Len(msgs)
    /\ msgs[h].proc = "running"
    /\ Settle(h, OnScanExit(msgs[h], outcome))

TimerFire(h) ==
    /\ h \in 1..Len(msgs)
    /\ msgs[h].timer = "armed"
    /\ clock >= msgs[h].deadline
    /\ Settle(h, OnScanTimeout(msgs[h]))

DemoCreated(h, ok) ==
    /\ h \in 1..Len(msgs)
    /\ msgs[h].pc = "demoCreate"
    /\ Settle(h, OnDemoCreated(msgs[h], ok))

DemoRead(h, ok, content) ==
    /\ h \in 1..Len(msgs)
    /\ msgs[h].pc = "demoRead"
    /\ Settle(h, OnDemoRead(msgs[h], ok, content))

(***************************************************************************)
(* Specifications.  Each draws the inbound messages and the outcomes of    *)
(* the external processes from the sets its claims are about.              *)
(***************************************************************************)
\* a listing that fails, prints what cannot be parsed, finds nothing, or finds
\* the usual devices
FewListOutcomes ==
    { ListError }
    \cup { Listed(r) : r \in (IF platform = "win32"
                              THEN { <<>>, <<PnpCanon>>, <<PnpCanon, WiaCanon>> }
                              ELSE { <<>>, <<SaneCanon>> }) }

\* a listing that fails and one that finds the usual devices
TwoListOutcomes ==
    { ListError,
      Listed(IF platform = "win32" THEN <<PnpCanon, WiaCanon>> ELSE <<SaneCanon>>) }

\* a scan that succeeds and one that fails
FewScanOutcomes ==
    { o \in ScanOutcomes :
        \/ o.stdout = <<"[SCAN]", "Transfer", "successful", BASE64_PREFIX, "/9j/4AAQ">>
        \/ o.stderr = <<"Paper", "jam">> }

\* the messages received so far are device-list polls, at most MaxPolls of them
OnlyPolls ==
    /\ Len(msgs) <= MaxPolls
    /\ \A h \in 1..Len(msgs) : msgs[h].raw = GetScanners

\* the protocol handler on one connection: device-list polls, then one message
\* of any kind; few outcomes
Next ==
    \/ Connect(1)
    \/ ClientClose(1)
    \/ \E raw \in RawMessages : OnlyPolls /\ Receive(1, raw)
    \/ \E h \in 1..MaxMsgs, error \in BOOLEAN : ListVersionExit(h, error)
    \/ \E h \in 1..MaxMsgs : \E outcome \in TwoListOutcomes : ListExit(h, outcome)
    \/ \E h \in 1..MaxMsgs : \E outcome \in FewScanOutcomes : ScanExit(h, outcome)
    \/ \E h \in 1..MaxMsgs, ok \in BOOLEAN : DemoCreated(h, ok)
    \/ \E h \in 1..MaxMsgs, ok \in BOOLEAN : DemoRead(h, ok, <<"/9j/4AAQ">>)

Spec == Init /\ [][Next]_vars

\* device-list polling on one connection
NextThrottle ==
    \/ Connect(1)
    \/ \E d \in {1999, 2000} : Tick(d)
    \/ Receive(1, GetScanners)
    \/ \E h \in 1..MaxMsgs, error \in BOOLEAN : ListVersionExit(h, error)
    \/ \E h \in 1..MaxMsgs : \E outcome \in TwoListOutcomes : ListExit(h, outcome)

SpecThrottle == Init /\ [][NextThrottle]_vars

\* enumeration: every output of the listing backend
NextEnum ==
    \/ Connect(1)
    \/ ClientClose(1)
    \/ Len(msgs) < MaxEnumMsgs /\ Receive(1, GetScanners)
    \/ \E h \in 1..MaxMsgs, error \in BOOLEAN : ListVersionExit(h, error)
    \/ \E h \in 1..MaxMsgs : \E outcome \in ListOutcomes : ListExit(h, outcome)

SpecEnum == Init /\ [][NextEnum]_vars

\* scans on one connection, racing the timer, with the client free to leave
NextScan ==
    \/ Connect(1)
    \/ Tick(SCAN_TIMEOUT)
    \/ \E raw \in {StartScanDemo, StartScanWia, StartScanPnp} :
          Len(msgs) < MaxScans /\ Receive(1, raw)
    \/ \E h \in 1..MaxMsgs, error \in BOOLEAN : ListVersionExit(h, error)
    \/ \E h \in 1..MaxMsgs : \E outcome \in TwoListOutcomes : ListExit(h, outcome)
    \/ \E h \in 1..MaxMsgs : \E outcome \in FewScanOutcomes : ScanExit(h, outcome)
    \/ \E h \in 1..MaxMsgs : TimerFire(h)
    \/ \E h \in 1..MaxMsgs, ok \in BOOLEAN : DemoCreated(h, ok)
    \/ \E h \in 1..MaxMsgs, ok \in BOOLEAN : DemoRead(h, ok, <<"/9j/4AAQ">>)

SpecScan == Init /\ [][NextScan]_vars

\* scans whose process exits cleanly with every kind of standard output, and
\* demo scans of an empty and of a non-empty sample image
NextPayload ==
    \/ Connect(1)
    \/ Tick(SCAN_TIMEOUT)
    \/ \E raw \in {StartScanDemo, StartScanWia} :
          Len(msgs) < MaxScans /\ Receive(1, raw)
    \/ \E h \in 1..MaxMsgs, error \in BOOLEAN : ListVersionExit(h, error)
    \/ \E h \in 1..MaxMsgs : \E outcome \in TwoListOutcomes : ListExit(h, outcome)
    \/ \E h \in 1..MaxMsgs : \E outcome \in ScanSuccesses \cup FewScanOutcomes :
          ScanExit(h, outcome)
    \/ \E h \in 1..MaxMsgs : TimerFire(h)
    \/ \E h \in 1..MaxMsgs, ok \in BOOLEAN : DemoCreated(h, ok)
    \/ \E h \in 1..MaxMsgs, ok \in BOOLEAN, content \in {<<>>, <<"/9j/4AAQ">>} :
          DemoRead(h, ok, content)

SpecPayload == Init /\ [][NextPayload]_vars

\* listings with no WIA record, with a disconnected one, and with a connected
\* WIA record in first and in second place
ResolveListOutcomes ==
    { ListError }
    \cup { Listed(r) : r \in (IF platform = "win32"
                              THEN { <<>>, <<PnpCanon>>, <<WiaEpson>>,
                                     <<PnpCanon, WiaCanon>>, <<WiaEpson, WiaCanonB>>,
                                     <<WiaCanonB, WiaCanon>> }
                              ELSE { <<>>, <<SaneCanon>> }) }

\* start-scan requests for WIA and plug-and-play ids
NextResolve ==
    \/ Connect(1)
    \/ ClientClose(1)
    \/ \E raw \in {StartScanWia, StartScanWiaDoubled, StartScanPnp} :
          Len(msgs) < MaxScans /\ Receive(1, raw)
    \/ \E h \in 1..MaxMsgs, error \in BOOLEAN : ListVersionExit(h, error)
    \/ \E h \in 1..MaxMsgs : \E outcome \in ResolveListOutcomes : ListExit(h, outcome)
    \/ \E h \in 1..MaxMsgs : \E outcome \in FewScanOutcomes : ScanExit(h, outcome)

SpecResolve == Init /\ [][NextResolve]_vars

\* a client that polls the device list, at PollInterval or at the throttle
\* interval
NextAnchor ==
    \/ Connect(1)
    \/ \E d \in {PollInterval, SCANNER_REQUEST_THROTTLE} : Tick(d)
    \/ Receive(1, GetScanners)
    \/ \E h \in 1..MaxMsgs, error \in BOOLEAN : ListVersionExit(h, error)
    \/ \E h \in 1..MaxMsgs : ListExit(h, ListError)

SpecAnchor == Init /\ [][NextAnchor]_vars

\* scans of a WIA device whose process fails with every error text
NextExecutor ==
    \/ Connect(1)
    \/ Tick(SCAN_TIMEOUT)
    \/ Len(msgs) < MaxScans /\ Receive(1, StartScanWia)
    \/ \E h \in 1..MaxMsgs, error \in BOOLEAN : ListVersionExit(h, error)
    \/ \E h \in 1..MaxMsgs : ListExit(h, ListError)
    \/ \E h \in 1..MaxMsgs : \E outcome \in ScanFailures : ScanExit(h, outcome)
    \/ \E h \in 1..MaxMsgs : TimerFire(h)

SpecExecutor == Init /\ [][NextExecutor]_vars

\* messages of every kind in any order on one connection
FrameMessages == { GetScanners, StartScanWia, "not-json", "{\"type\":\"ping\"}" }

NextFrame ==
    \/ Connect(1)
    \/ clock + SCANNER_REQUEST_THROTTLE <= Epoch + MaxElapsed
          /\ Tick(SCANNER_REQUEST_THROTTLE)
    \/ \E raw \in FrameMessages : Len(msgs) < MaxFrameMsgs /\ Receive(1, raw)
    \/ \E h \in 1..MaxMsgs, error \in BOOLEAN : ListVersionExit(h, error)
    \/ \E h \in 1..MaxMsgs : \E outcome \in TwoListOutcomes : ListExit(h, outcome)

SpecFrame == Init /\ [][NextFrame]_vars

\* scans on a connection that the client may close at any moment
NextClose ==
    \/ Connect(1)
    \/ ClientClose(1)
    \/ Tick(SCAN_TIMEOUT)
    \/ \E raw \in {StartScanDemo, StartScanWia} :
          Len(msgs) < MaxScans /\ Receive(1, raw)
    \/ \E h \in 1..MaxMsgs, error \in BOOLEAN : ListVersionExit(h, error)
    \/ \E h \in 1..MaxMsgs : \E outcome \in TwoListOutcomes : ListExit(h, outcome)
    \/ \E h \in 1..MaxMsgs : \E outcome \in FewScanOutcomes : ScanExit(h, outcome)
    \/ \E h \in 1..MaxMsgs, ok \in BOOLEAN : DemoCreated(h, ok)
    \/ \E h \in 1..MaxMsgs, ok \in BOOLEAN : DemoRead(h, ok, <<"/9j/4AAQ">>)
    \/ \E h \in 1..MaxMsgs : TimerFire(h)

SpecClose == Init /\ [][NextClose]_vars

\* scans of a real device: every outcome of the scan process
NextClassify ==
    \/ Connect(1)
    \/ Tick(SCAN_TIMEOUT)
    \/ \E raw \in {StartScanWia, StartScanPnp} :
          Len(msgs) < MaxScans /\ Receive(1, raw)
    \/ \E h \in 1..MaxMsgs, error \in BOOLEAN : ListVersionExit(h, error)
    \/ \E h \in 1..MaxMsgs : \E outcome \in TwoListOutcomes : ListExit(h, outcome)
    \/ \E h \in 1..MaxMsgs : \E outcome \in ScanOutcomes : ScanExit(h, outcome)
    \/ \E h \in 1..MaxMsgs : TimerFire(h)

SpecClassify == Init /\ [][NextClassify]_vars

\* the protocol handler with the clock and the scan timers
NextSession ==
    \/ Next
    \/ Tick(SCAN_TIMEOUT)
    \/ \E h \in 1..MaxMsgs : TimerFire(h)

SpecSession == Init /\ [][NextSession]_vars

\* scans when time passes, timers fire, the listing processes end and the file
\* operations of the demo scan complete; the scan process and, on macOS, the
\* sips process of createDemoScan may never end
FairScan ==
    /\ WF_vars(Tick(SCAN_TIMEOUT))
    /\ WF_vars(\E h \in 1..MaxMsgs : TimerFire(h))
    /\ WF_vars(\E h \in 1..MaxMsgs, error \in BOOLEAN : ListVersionExit(h, error))
    /\ WF_vars(\E h \in 1..MaxMsgs : \E outcome \in TwoListOutcomes : ListExit(h, outcome))
    /\ WF_vars(platform # "darwin" /\ \E h \in 1..MaxMsgs, ok \in BOOLEAN : DemoCreated(h, ok))
    /\ WF_vars(\E h \in 1..MaxMsgs, ok \in BOOLEAN : DemoRead(h, ok, <<"/9j/4AAQ">>))

SpecScanFair == Init /\ [][NextScan]_vars /\ FairScan

\* enumeration while time passes; a listing process may never end
NextPoll ==
    \/ Connect(1)
    \/ ClientClose(1)
    \/ Tick(SCANNER_REQUEST_THROTTLE)
    \/ Len(msgs) < MaxEnumMsgs /\ Receive(1, GetScanners)
    \/ \E h \in 1..MaxMsgs, error \in BOOLEAN : ListVersionExit(h, error)
    \/ \E h \in 1..MaxMsgs : \E outcome \in FewListOutcomes : ListExit(h, outcome)

SpecPoll == Init /\ [][NextPoll]_vars /\ WF_vars(Tick(SCANNER_REQUEST_THROTTLE))

\* device-list polling on two connections
NextCross ==
    \/ \E c \in {1, 2} : Connect(c)
    \/ Tick(SCANNER_REQUEST_THROTTLE - 1)
    \/ \E c \in {1, 2} : Len(msgs) < MaxCrossMsgs /\ Receive(c, GetScanners)
    \/ \E h \in 1..MaxMsgs, error \in BOOLEAN : ListVersionExit(h, error)
    \/ \E h \in 1..MaxMsgs : \E outcome \in TwoListOutcomes : ListExit(h, outcome)

SpecCross == Init /\ [][NextCross]_vars

\* start-scan requests for one device that overlap, on one or on two connections
NextOverlap ==
    \/ \E c \in {1, 2} : Connect(c)
    \/ Tick(SCAN_TIMEOUT)
    \/ \E c \in {1, 2} : Len(msgs) < MaxOverlap /\ Receive(c, StartScanWia)
    \/ \E h \in 1..MaxMsgs : ListVersionExit(h, TRUE)
    \/ \E h \in 1..MaxMsgs : ListExit(h, ListError)
    \/ \E h \in 1..MaxMsgs : \E outcome \in FewScanOutcomes : ScanExit(h, outcome)
    \/ \E h \in 1..MaxMsgs : TimerFire(h)

SpecOverlap == Init /\ [][NextOverlap]_vars

(***************************************************************************)
(* Claims.                                                                 *)
(***************************************************************************)
Handlers == 1..Len(msgs)
IsGetScanners(h) == msgs[h].raw = GetScanners
IsStartScan(h) == msgs[h].raw \in StartScanMessages
\* the request passed the throttle: its handler started a listing
Honored(h) == IsGetScanners(h) /\ msgs[h].spawned # <<>>
Envelopes(h) == { msgs[h].sent[k] : k \in 1..Len(msgs[h].sent) }

\* C1: a get-scanners request that arrives less than 2000 ms after an honored
\* get-scanners request of the same connection starts no listing and is sent no
\* envelope, also while the listing of the honored request is still in flight.
C1_ThrottledRequestIsSilent ==
    \A i, j \in Handlers :
        ( /\ i < j
          /\ msgs[i].conn = msgs[j].conn
          /\ Honored(i)
          /\ IsGetScanners(j)
          /\ msgs[j].at - msgs[i].at < 2000 )
        => /\ msgs[j].sent = <<>>
           /\ msgs[j].spawned = <<>>
           /\ msgs[j].pc = "done"

\* a request 1999 ms after an honored one whose listing is still in flight
C1_Witness ==
    \E i, j \in Handlers :
        /\ i < j
        /\ msgs[i].conn = msgs[j].conn
        /\ Honored(i)
        /\ msgs[i].pc # "done"
        /\ IsGetScanners(j)
        /\ msgs[j].at - msgs[i].at = 1999
        /\ msgs[j].sent = <<>>

\* C2: once the 120-second timer of a scan fired before the scan process ended,
\* the start-scan has been sent exactly one envelope, the timeout error, and this
\* stays so when the process ends later, with success or with failure.
C2_TimeoutAnsweredOnce ==
    \A h \in Handlers :
        msgs[h].timer = "fired" =>
            /\ Len(msgs[h].sent) = 1
            /\ msgs[h].sent[1].type = "error"
            /\ msgs[h].sent[1].error =
                  <<"Scanning", "failed:", "Scanner", "timeout", "-", "no",
                    "response", "from", "device">>

\* the scan process ended after the timer had fired, on an open connection
C2_Witness ==
    \E h \in Handlers :
        /\ msgs[h].timer = "fired"
        /\ msgs[h].proc = "exited"
        /\ connState[msgs[h].conn] = "open"
        /\ outbox[msgs[h].conn] = <<h>>

\* C3 (as claimed): a start-scan for 'demo-scanner' spawns no external process
\* and, once handled, has been sent exactly one scan-complete envelope with
\* success true.
C3_DemoScanSpawnsNothing ==
    \A h \in Handlers :
        msgs[h].raw = StartScanDemo =>
            /\ msgs[h].spawned = <<>>
            /\ msgs[h].pc = "done" =>
                  /\ Len(msgs[h].sent) = 1
                  /\ msgs[h].sent[1].type = "scan-complete"
                  /\ msgs[h].sent[1].data.success

\* C4: the data of every scanners-list envelope is non-empty; it is exactly the
\* sentinel record when the listing left no valid device, and holds no sentinel
\* record when it left one.
C4_ListNeverEmpty ==
    \A h \in Handlers : \A e \in Envelopes(h) :
        e.type = "scanners-list" =>
            LET real == { i \in 1..Len(msgs[h].scanners) :
                            /\ msgs[h].scanners[i].id # <<>>
                            /\ msgs[h].scanners[i].name # <<>>
                            /\ msgs[h].scanners[i].rawInfo \notin {<<>>, <<"{}">>} }
            IN  /\ Len(e.data) >= 1
                /\ real = {} =>
                      /\ Len(e.data) = 1
                      /\ e.data[1].id = <<"demo-scanner">>
                      /\ e.data[1].name = <<"Demo", "Scanner">>
                /\ real # {} =>
                      \A k \in 1..Len(e.data) : e.data[k].id # <<"demo-scanner">>

\* a reply holding the sentinel alone after a listing of two invalid records
C4_Witness ==
    \E h \in Handlers : \E e \in Envelopes(h) :
        /\ e.type = "scanners-list"
        /\ Len(msgs[h].scanners) = 2
        /\ e.data = <<DemoScanner>>

\* C5 (as claimed): every start-scan with a non-empty deviceId is eventually
\* answered with exactly one envelope, scan-complete or error, when the listing
\* that precedes the scan completes, also when the scan process never exits.
C5_StartScanAnswered ==
    \A h \in 1..MaxMsgs :
        (h \in Handlers /\ msgs[h].raw \in {StartScanDemo, StartScanWia, StartScanPnp})
        ~> ( /\ h \in Handlers
             /\ msgs[h].pc = "done"
             /\ Len(msgs[h].sent) = 1
             /\ msgs[h].sent[1].type \in {"scan-complete", "error"} )

\* C6 (as claimed): every honored get-scanners request is eventually answered
\* with exactly one scanners-list envelope, whatever the listing process does,
\* never exiting included.
C6_HonoredAnswered ==
    \A h \in 1..MaxMsgs :
        (h \in Handlers /\ Honored(h))
        ~> ( /\ h \in Handlers
             /\ msgs[h].pc = "done"
             /\ Len(msgs[h].sent) = 1
             /\ msgs[h].sent[1].type = "scanners-list" )

\* C6 (amended): an honored get-scanners request has been sent nothing while its
\* listing process runs, and exactly one scanners-list envelope once that process
\* ended, with success, with an error or with output that cannot be parsed.
C6_AnsweredWhenListingEnds ==
    \A h \in Handlers :
        Honored(h) =>
            IF msgs[h].pc = "done"
            THEN /\ Len(msgs[h].sent) = 1
                 /\ msgs[h].sent[1].type = "scanners-list"
            ELSE /\ msgs[h].pc \in {"list", "listVersion"}
                 /\ msgs[h].sent = <<>>

\* an honored request answered after its listing found no record
C6_Witness ==
    \E h \in Handlers :
        /\ Honored(h)
        /\ msgs[h].pc = "done"
        /\ msgs[h].scanners = <<>>
        /\ Len(msgs[h].sent) = 1
        /\ msgs[h].sent[1].type = "scanners-list"

IsInvalidMessageFormat(e) ==
    e.type = "error" /\ e.error = <<"Invalid", "message", "format">>
IsUnknownMessageType(e) ==
    e.type = "error" /\ e.error = <<"Unknown", "message", "type">>
\* the message just received, in a step that received one
Arrived == msgs'[Len(msgs')]
Receiving == Len(msgs') = Len(msgs) + 1

\* C7 (as claimed): a message that is not valid JSON is sent exactly one
\* 'Invalid message format' envelope, and only such messages are sent one.
C7_InvalidFormatIffNotJSON ==
    \A h \in Handlers :
        /\ ~ValidJSON(msgs[h].raw) =>
              Len(msgs[h].sent) = 1 /\ IsInvalidMessageFormat(msgs[h].sent[1])
        /\ \A e \in Envelopes(h) :
              IsInvalidMessageFormat(e) => ~ValidJSON(msgs[h].raw)

\* C7 (amended): a message that is not valid JSON, or is the JSON value null, is
\* sent exactly one 'Invalid message format' envelope and starts no process; the
\* step that receives it leaves the connection open and the throttle timestamp
\* and the fingerprint as they were; no other message is sent that envelope.
C7_InvalidFormatIffNotJSONOrNull ==
    /\ [](\A h \in Handlers :
            IF ~ValidJSON(msgs[h].raw) \/ msgs[h].raw = "null"
            THEN /\ Len(msgs[h].sent) = 1
                 /\ IsInvalidMessageFormat(msgs[h].sent[1])
                 /\ msgs[h].spawned = <<>>
            ELSE \A e \in Envelopes(h) : ~IsInvalidMessageFormat(e))
    /\ [][(Receiving /\ (~ValidJSON(Arrived.raw) \/ Arrived.raw = "null"))
            => /\ connState'[Arrived.conn] = "open"
               /\ UNCHANGED <<connState, lastScannerRequest, scannerCache>>]_vars

\* 'not-json' answered on a connection whose earlier poll set the session state
C7_Witness ==
    \E h \in Handlers :
        /\ h > 1
        /\ msgs[h].raw = "not-json"
        /\ Len(msgs[h].sent) = 1
        /\ IsInvalidMessageFormat(msgs[h].sent[1])
        /\ connState[msgs[h].conn] = "open"
        /\ lastScannerRequest[msgs[h].conn] # 0
        /\ scannerCache[msgs[h].conn] # <<>>

\* valid JSON whose type is neither get-scanners nor start-scan
UnknownKind(raw) ==
    /\ ValidJSON(raw)
    /\ ~IsType(JSONParse(raw), "get-scanners")
    /\ ~IsType(JSONParse(raw), "start-scan")

\* C8 (as claimed): every message that is valid JSON of an unknown kind, null, a
\* number and {} included, is sent exactly one 'Unknown message type' envelope.
C8_UnknownKindAnswered ==
    \A h \in Handlers :
        UnknownKind(msgs[h].raw) =>
            Len(msgs[h].sent) = 1 /\ IsUnknownMessageType(msgs[h].sent[1])

\* C8 (amended): every message that is valid JSON of an unknown kind, other than
\* the JSON value null, is sent exactly one 'Unknown message type' envelope, and
\* the step that receives it leaves the connection open.
C8_UnknownKindAnsweredUnlessNull ==
    /\ [](\A h \in Handlers :
            (UnknownKind(msgs[h].raw) /\ msgs[h].raw # "null") =>
                Len(msgs[h].sent) = 1 /\ IsUnknownMessageType(msgs[h].sent[1]))
    /\ [][(Receiving /\ UnknownKind(Arrived.raw) /\ Arrived.raw # "null")
            => /\ connState'[Arrived.conn] = "open"
               /\ connState' = connState]_vars

\* a number answered with 'Unknown message type' on a connection that stays open
C8_Witness ==
    \E h \in Handlers :
        /\ msgs[h].raw = "5"
        /\ Len(msgs[h].sent) = 1
        /\ IsUnknownMessageType(msgs[h].sent[1])
        /\ connState[msgs[h].conn] = "open"
        /\ outbox[msgs[h].conn] # <<>>

\* C9: a connection leaves the open state only in a step in which the client
\* closes it, whatever was received and whatever the listings, the scans and the
\* timers did.
C9_OnlyClientCloses ==
    [][\A c \in Conns :
         (connState[c] = "open" /\ connState'[c] # "open") => ClientClose(c)]_vars

\* a connection still open after a scan failed and its error envelope was sent
C9_Witness ==
    /\ connState[1] = "open"
    /\ \E h \in Handlers :
          /\ msgs[h].proc = "exited"
          /\ msgs[h].timer = "cleared"
          /\ Len(msgs[h].sent) = 1
          /\ msgs[h].sent[1].type = "error"

\* C10 (as claimed): when a scan process fails with an error text that matches
\* 'Result code: 0x80210015', 'Result code: 0x80210006' or 'Access is denied',
\* the one error envelope sent is not of the form 'Scanning failed: <text>'.
C10_ClassifiedKindsNotGeneric ==
    [][\A h \in Handlers : \A outcome \in ScanFailures :
         ( /\ ScanExit(h, outcome)
           /\ ~msgs[h].isHandled
           /\ \/ Includes(outcome.stderr, <<"Result", "code:", "0x80210015">>)
              \/ Includes(outcome.stderr, <<"Result", "code:", "0x80210006">>)
              \/ Includes(outcome.stderr, <<"Access", "is", "denied">>) )
         => /\ Len(msgs'[h].sent) = 1
            /\ msgs'[h].sent[1].type = "error"
            /\ SubSeq(msgs'[h].sent[1].error, 1, 2) # <<"Scanning", "failed:">>]_vars

\* C11: a get-scanners request is never sent an error envelope; when the listing
\* tool is absent, exits with an error or prints what cannot be parsed, the reply
\* to the honored request is the scanners-list envelope that holds the sentinel
\* alone.
C11_ListingFailureIsEmptyList ==
    /\ [](\A h \in Handlers :
            IsGetScanners(h) => \A e \in Envelopes(h) : e.type = "scanners-list")
    /\ [][\A h \in Handlers :
            ( /\ IsGetScanners(h)
              /\ \/ ListVersionExit(h, TRUE)
                 \/ \E outcome \in ListOutcomes :
                       /\ outcome.error \/ ~outcome.parsable
                       /\ ListExit(h, outcome) )
            => /\ Len(msgs'[h].sent) = 1
               /\ msgs'[h].sent[1].type = "scanners-list"
               /\ msgs'[h].sent[1].data = <<DemoScanner>>]_vars

\* a poll answered with the sentinel alone when `scanimage -V` failed
C11_Witness ==
    \E h \in Handlers :
        /\ IsGetScanners(h)
        /\ msgs[h].spawned = <<"list-version">>
        /\ msgs[h].pc = "done"
        /\ Len(msgs[h].sent) = 1
        /\ msgs[h].sent[1].type = "scanners-list"
        /\ msgs[h].sent[1].data = <<DemoScanner>>

\* C12: when the listing of an honored get-scanners request ends with a device
\* list whose fingerprint equals the one stored for the connection, the request
\* is still sent one scanners-list envelope holding the whole list, and the
\* stored fingerprint stays as it was.
C12_SameFingerprintStillAnswered ==
    [][\A h \in Handlers :
         ( /\ IsGetScanners(h)
           /\ msgs[h].pc # "done"
           /\ msgs'[h].pc = "done"
           /\ scannerKey(sortedDevices(msgs'[h].scanners))
                = scannerCache[msgs[h].conn] )
         => /\ Len(msgs'[h].sent) = 1
            /\ msgs'[h].sent[1].type = "scanners-list"
            /\ msgs'[h].sent[1].data = sortedDevices(msgs'[h].scanners)
            /\ Len(msgs'[h].sent[1].data) >= 1
            /\ scannerCache' = scannerCache]_vars

\* two honored polls of one connection answered with the same list
C12_Witness ==
    \E i, j \in Handlers :
        /\ i < j
        /\ msgs[i].conn = msgs[j].conn
        /\ Honored(i) /\ msgs[i].pc = "done"
        /\ Honored(j) /\ msgs[j].pc = "done"
        /\ Len(msgs[j].sent) = 1
        /\ msgs[j].sent = msgs[i].sent
        /\ scannerCache[msgs[j].conn] = scannerKey(msgs[j].sent[1].data)

\* C13 (as claimed): on one connection the handling of a message starts only after
\* the handling of every earlier message of that connection has finished, and the
\* replies of a connection are sent in the order of their requests.
C13_SequentialPerConnection ==
    /\ \A i, j \in Handlers :
          (i < j /\ msgs[i].conn = msgs[j].conn) => msgs[i].pc = "done"
    /\ \A c \in Conns : \A k \in 1..(Len(outbox[c]) - 1) :
          outbox[c][k] < outbox[c][k + 1]

\* C14: a step changes the throttle timestamp or the fingerprint of a connection
\* only when it handles a message of that connection, and a get-scanners request
\* is honored exactly when no honored request of its own connection arrived less
\* than 2000 ms before it, whatever the other connections did.
C14_SessionStateIsPerConnection ==
    /\ [](\A j \in Handlers :
            IsGetScanners(j) =>
                ( Honored(j) <=>
                    ~\E i \in 1..(j - 1) :
                        /\ msgs[i].conn = msgs[j].conn
                        /\ Honored(i)
                        /\ msgs[j].at - msgs[i].at < 2000 ))
    /\ [][\A b \in Conns :
            ( \/ lastScannerRequest'[b] # lastScannerRequest[b]
              \/ scannerCache'[b] # scannerCache[b] )
            => \/ Receiving /\ Arrived.conn = b
               \/ \E h \in Handlers : msgs'[h] # msgs[h] /\ msgs[h].conn = b]_vars

\* a poll honored on one connection 1999 ms after a poll of the other connection,
\* while a poll of the other connection at that same time is dropped
C14_Witness ==
    \E i, j, k \in Handlers :
        /\ i < j /\ i < k
        /\ msgs[i].conn = msgs[k].conn
        /\ msgs[j].conn # msgs[i].conn
        /\ Honored(i) /\ Honored(j)
        /\ IsGetScanners(k) /\ ~Honored(k)
        /\ msgs[j].at - msgs[i].at = 1999
        /\ msgs[k].at = msgs[j].at
        /\ scannerCache[msgs[i].conn] # scannerCache[msgs[j].conn]

\* C15: every record of the data of every scanners-list envelope has a non-empty
\* id and a non-empty name, and is the sentinel or a record of the listing with a
\* non-empty id, name and rawInfo other than '{}'.
C15_SurfacedRecordsHaveIdAndName ==
    \A h \in Handlers : \A e \in Envelopes(h) :
        e.type = "scanners-list" =>
            \A k \in 1..Len(e.data) :
                /\ e.data[k].id # <<>>
                /\ e.data[k].name # <<>>
                /\ \/ e.data[k] = DemoScanner
                   \/ \E i \in 1..Len(msgs[h].scanners) :
                         /\ e.data[k] = msgs[h].scanners[i]
                         /\ msgs[h].scanners[i].rawInfo \notin {<<>>, <<"{}">>}

\* a reply that holds the one valid record of a listing whose other record has
\* an id and no name
C15_Witness ==
    \E h \in Handlers : \E e \in Envelopes(h) :
        /\ e.type = "scanners-list"
        /\ Len(msgs[h].scanners) = 2
        /\ \E i \in 1..2 :
              msgs[h].scanners[i].id # <<>> /\ msgs[h].scanners[i].name = <<>>
        /\ Len(e.data) = 1
        /\ e.data[1].id # <<"demo-scanner">>

\* the positions of the listing of handler h that pass the filter
ValidPositions(h) ==
    { i \in 1..Len(msgs[h].scanners) :
        /\ msgs[h].scanners[i].id # <<>>
        /\ msgs[h].scanners[i].name # <<>>
        /\ msgs[h].scanners[i].rawInfo \notin {<<>>, <<"{}">>} }

\* the position whose record the claim says is retained for the name of position i:
\* the first WIA-origin one of that name, or else the first of that name
RetainedPosition(h, i) ==
    LET same == { j \in ValidPositions(h) :
                    msgs[h].scanners[j].name = msgs[h].scanners[i].name }
        wia == { j \in same :
                   Includes(msgs[h].scanners[j].rawInfo, <<"\"Source\":\"WIA\"">>) }
        from == IF wia # {} THEN wia ELSE same
    IN  CHOOSE j \in from : \A k \in from : j <= k

\* C16: a scanners-list reply holds at most one record per name, and for every
\* name of a valid record of the listing it holds the first WIA-origin record of
\* that name, or the first record of that name when none is of WIA origin.
C16_DedupByName ==
    \A h \in Handlers : \A e \in Envelopes(h) :
        e.type = "scanners-list" =>
            /\ \A k, l \in 1..Len(e.data) :
                  k # l => e.data[k].name # e.data[l].name
            /\ \A i \in ValidPositions(h) :
                  \E k \in 1..Len(e.data) :
                      e.data[k] = msgs[h].scanners[RetainedPosition(h, i)]

\* a reply that holds the WIA record of a name listed first from plug-and-play
C16_Witness ==
    \E h \in Handlers : \E e \in Envelopes(h) :
        /\ e.type = "scanners-list"
        /\ Len(msgs[h].scanners) = 2
        /\ msgs[h].scanners[1].name = msgs[h].scanners[2].name
        /\ ~Includes(msgs[h].scanners[1].rawInfo, <<"\"Source\":\"WIA\"">>)
        /\ Includes(msgs[h].scanners[2].rawInfo, <<"\"Source\":\"WIA\"">>)
        /\ e.data = <<msgs[h].scanners[2]>>

\* the orders in which the records of a list can be handed to the sort
OrdersOf(list) ==
    { q \in [1..Len(list) -> { list[k] : k \in 1..Len(list) }] :
        \A k \in 1..Len(list) : \E l \in 1..Len(list) : q[l] = list[k] }

\* C17: in every scanners-list reply the WIA-origin records precede the others,
\* records of the same origin class are in ascending order of name, and sorting
\* the records of the reply from any other order gives the reply again.
C17_WiaFirstThenByName ==
    \A h \in Handlers : \A e \in Envelopes(h) :
        e.type = "scanners-list" =>
            /\ \A k, l \in 1..Len(e.data) :
                  k < l =>
                    LET kIsWIA == Includes(e.data[k].rawInfo, <<"\"Source\":\"WIA\"">>)
                        lIsWIA == Includes(e.data[l].rawInfo, <<"\"Source\":\"WIA\"">>)
                    IN  /\ kIsWIA \/ ~lIsWIA
                        /\ kIsWIA = lIsWIA =>
                              localeCompare(e.data[k].name, e.data[l].name) < 0
            /\ \A q \in OrdersOf(e.data) : SortFrom(<<>>, q, 1) = e.data

\* a reply in which a WIA record precedes a plug-and-play record that was listed
\* first and whose name comes first
C17_Witness ==
    \E h \in Handlers : \E e \in Envelopes(h) :
        /\ e.type = "scanners-list"
        /\ Len(msgs[h].scanners) = 2
        /\ e.data = <<msgs[h].scanners[2], msgs[h].scanners[1]>>
        /\ Includes(e.data[1].rawInfo, <<"\"Source\":\"WIA\"">>)
        /\ ~Includes(e.data[2].rawInfo, <<"\"Source\":\"WIA\"">>)
        /\ localeCompare(e.data[1].name, e.data[2].name) > 0

\* C18: the step in which a connection closes leaves every handler, its scan
\* process and its timer as they were; when a handler of a closed connection
\* settles afterwards, by the exit of its process or by its timer, nothing is
\* delivered on any connection; and what a connection was delivered are replies
\* to its own messages.
C18_ScanOutlivesConnection ==
    /\ [](\A c \in Conns : \A k \in 1..Len(outbox[c]) :
            msgs[outbox[c][k]].conn = c)
    /\ [][\A c \in Conns :
            (connState[c] = "open" /\ connState'[c] = "closed") => msgs' = msgs]_vars
    /\ [][\A h \in Handlers :
            (msgs'[h] # msgs[h] /\ connState[msgs[h].conn] = "closed")
            => outbox' = outbox]_vars

\* a scan that ended after its connection closed: the process ran to its exit,
\* the handler called ws.send, nothing was delivered
C18_Witness ==
    \E h \in Handlers :
        /\ connState[msgs[h].conn] = "closed"
        /\ msgs[h].proc = "exited"
        /\ msgs[h].timer = "cleared"
        /\ msgs[h].pc = "done"
        /\ Len(msgs[h].sent) = 1
        /\ \A c \in Conns : outbox[c] = <<>>

\* the number of processes of one kind that handler h started
Spawned(h, kind) ==
    Cardinality({ k \in 1..Len(msgs[h].spawned) : msgs[h].spawned[k] = kind })

\* start-scan requests whose deviceId is present and is not the sentinel
NonSentinelScans == { StartScanWia, StartScanPnp, StartScanNumberId }

IsDeviceNotFound(e) ==
    /\ e.type = "error"
    /\ Len(e.error) >= 3
    /\ SubSeq(e.error, 1, 3) \in { <<"Scanner", "not", "found">>,
                                   <<"Scanner", "not", "found.">> }

\* the deviceId of start-scan handler h is in no record of the enumeration run
\* for it, and the enumeration has no connected WIA device
Unresolved(h) ==
    LET deviceId == Prop(JSONParse(msgs[h].raw), "deviceId").s IN
    /\ msgs[h].raw \in {StartScanWia, StartScanPnp}
    /\ msgs[h].pc \notin {"list", "listVersion"}
    /\ \A i \in 1..Len(msgs[h].scanners) :
          /\ msgs[h].scanners[i].id # deviceId
          /\ ~ ( /\ Includes(msgs[h].scanners[i].rawInfo, WIA_SOURCE)
                 /\ Includes(msgs[h].scanners[i].rawInfo, WIA_CONNECTED) )

\* C20: a start-scan request whose non-empty, non-sentinel deviceId is absent
\* from the enumeration run for it, with no connected WIA device to substitute,
\* is answered with the DeviceNotFound error kind.
C20_UnresolvedIdIsDeviceNotFound ==
    \A h \in Handlers :
        (Unresolved(h) /\ msgs[h].pc = "done") =>
            /\ Len(msgs[h].sent) = 1
            /\ IsDeviceNotFound(msgs[h].sent[1])

\* C21: with the SANE-style adapter, a scan command that exits with code zero
\* (having written the image to its --output-file and nothing to standard
\* output) is answered with scan-complete, success true.
C21_SaneExitZeroIsScanComplete ==
    [][\A h \in Handlers : \A outcome \in ScanSuccesses :
         ( /\ platform # "win32"
           /\ outcome.stdout = <<>>
           /\ ScanExit(h, outcome)
           /\ ~msgs[h].isHandled )
         => /\ Len(msgs'[h].sent) = 1
            /\ msgs'[h].sent[1].type = "scan-complete"
            /\ msgs'[h].sent[1].data.success]_vars

\* C22: a scan process that exits with code zero without a well-formed
\* 'data:image/jpeg;base64,<token>' in its output is answered with exactly one
\* error envelope and no scan-complete; the error carries the invalid-payload
\* text when the exit is what settles the scan (otherwise the one envelope is
\* the timeout error sent before). Every scan-complete envelope has success
\* true and a base64 field that begins with 'data:image/jpeg;base64,'.
C22_NoTokenIsInvalidPayload ==
    /\ [](\A h \in Handlers : \A k \in 1..Len(msgs[h].sent) :
            msgs[h].sent[k].type = "scan-complete" =>
                /\ msgs[h].sent[k].data.success
                /\ Len(msgs[h].sent[k].data.base64) >= 1
                /\ msgs[h].sent[k].data.base64[1] = BASE64_PREFIX)
    /\ [][\A h \in Handlers : \A outcome \in ScanSuccesses :
            (ScanExit(h, outcome) /\ Base64Matches(outcome.stdout) = {})
            => /\ Len(msgs'[h].sent) = 1
               /\ msgs'[h].sent[1].type = "error"
               /\ ~msgs[h].isHandled =>
                    msgs'[h].sent[1].error = <<"Scanning", "failed:">> \o InvalidImageData]_vars

\* a scan process printed the prefix without a token, exited cleanly before
\* the timer fired, and the handler sent the invalid-payload error
C22_Witness ==
    \E h \in Handlers :
        /\ msgs[h].proc = "exited"
        /\ msgs[h].timer = "cleared"
        /\ msgs[h].sent = <<ErrorEnvelope(<<"Scanning", "failed:">> \o InvalidImageData)>>

\* the error envelope of a scan that timed out
TimeoutEnvelope == ErrorEnvelope(InnerCatchMessage(ScannerTimeout))

\* C23: when the scan process completes before the timer has fired, the reply
\* is the outcome of that completion (one envelope, not the timeout error), the
\* timer callback never runs for that scan afterwards and nothing more is sent
\* for it; a scan is never answered twice.
C23_CompletionBeforeTimerWins ==
    /\ [](\A h \in Handlers : Len(msgs[h].sent) <= 1)
    /\ [](\A h \in Handlers :
            (msgs[h].proc = "exited" /\ msgs[h].timer # "fired") =>
                /\ msgs[h].sent # <<>>
                /\ msgs[h].sent[1] # TimeoutEnvelope)
    /\ [][\A h \in Handlers : \A outcome \in ScanOutcomes :
            (ScanExit(h, outcome) /\ msgs[h].timer = "armed")
            => msgs'[h].sent =
                 <<IF outcome.error
                   THEN ErrorEnvelope(InnerCatchMessage(ClassifyScanError(
                          IF Truthy(outcome.stderr) THEN outcome.stderr
                          ELSE outcome.message)))
                   ELSE IF Base64Matches(outcome.stdout) = {}
                   THEN ErrorEnvelope(InnerCatchMessage(InvalidImageData))
                   ELSE ScanComplete(Base64Match(outcome.stdout))>>]_vars
    /\ [][\A h \in Handlers :
            /\ (msgs[h].timer # "fired" /\ msgs'[h].timer = "fired")
                  => msgs[h].proc = "running"
            /\ msgs[h].proc = "exited" => msgs'[h].sent = msgs[h].sent]_vars

\* a scan process failed before the deadline, its error was sent, and the clock
\* has since passed the deadline
C23_Witness ==
    \E h \in Handlers :
        /\ msgs[h].proc = "exited"
        /\ msgs[h].timer = "cleared"
        /\ clock >= msgs[h].deadline
        /\ Len(msgs[h].sent) = 1
        /\ msgs[h].sent[1].type = "error"

\* the deviceId of the request of handler h
RequestedId(h) == Prop(JSONParse(msgs[h].raw), "deviceId").s

\* the records of the enumeration of handler h that are WIA-origin and Connected
ConnectedWia(h) ==
    { i \in 1..Len(msgs[h].scanners) :
        /\ Includes(msgs[h].scanners[i].rawInfo, WIA_SOURCE)
        /\ Includes(msgs[h].scanners[i].rawInfo, WIA_CONNECTED) }

\* the id that the claim's three rules give for the request of handler h
ClaimedId(h) ==
    IF Includes(RequestedId(h), WIA_ID_MARKER) THEN RequestedId(h)
    ELSE IF ConnectedWia(h) # {}
    THEN msgs[h].scanners[CHOOSE i \in ConnectedWia(h) :
                             \A j \in ConnectedWia(h) : i <= j].id
    ELSE RequestedId(h)

PollsBefore(c, h) ==
    { i \in Handlers : i < h /\ msgs[i].conn = c /\ IsGetScanners(i) }

\* the honored get-scanners handlers of connection c before handler h
HonoredBefore(c, h) == { i \in PollsBefore(c, h) : Honored(i) }

\* the largest element of a non-empty set of handlers
LastOf(S) == CHOOSE i \in S : \A j \in S : j <= i

\* C25 (as claimed): a client that polls continuously at an interval shorter
\* than 2 s is answered at least once in every window of 2 s plus one polling
\* interval. Here: four polls at PollInterval from the first request of a
\* connection; when the window that began with the first poll is over, an
\* envelope has been sent.
C25_PollingAnsweredInWindow ==
    ( /\ Len(msgs) = 4
      /\ \A h \in Handlers : IsGetScanners(h) /\ msgs[h].conn = 1
      /\ \A h \in 1..3 : msgs[h + 1].at - msgs[h].at = PollInterval
      /\ clock >= msgs[1].at + SCANNER_REQUEST_THROTTLE + PollInterval )
    => \E h \in Handlers : msgs[h].sent # <<>>

\* C25 (amended): the throttle is anchored to the last honored get-scanners
\* request. The first get-scanners of a connection is honored; the stored
\* timestamp is the arrival time of the last honored request (0 before the
\* first), so a dropped request does not change it; a request is honored
\* exactly when it arrives 2000 ms or more after the last honored one; hence
\* between two successive honored requests of a polling client lie less than
\* 2 s plus the interval that preceded the second one.
C25_ThrottleAnchoredToHonored ==
    /\ \A c \in Conns :
          lastScannerRequest[c] =
            (IF HonoredBefore(c, Len(msgs) + 1) = {} THEN 0
             ELSE msgs[LastOf(HonoredBefore(c, Len(msgs) + 1))].at)
    /\ \A h \in Handlers :
          IsGetScanners(h) =>
            LET c == msgs[h].conn IN
            /\ PollsBefore(c, h) = {} => Honored(h)
            /\ HonoredBefore(c, h) # {} =>
                 ( Honored(h) <=>
                     msgs[h].at - msgs[LastOf(HonoredBefore(c, h))].at
                       >= SCANNER_REQUEST_THROTTLE )
            /\ (Honored(h) /\ HonoredBefore(c, h) # {}) =>
                 msgs[h].at - msgs[LastOf(HonoredBefore(c, h))].at
                   < SCANNER_REQUEST_THROTTLE
                     + (msgs[h].at - msgs[LastOf(PollsBefore(c, h))].at)

\* four polls at PollInterval: the first is honored, the second and third are
\* dropped, the fourth arrives 2400 ms after the first and is honored
C25_Witness ==
    /\ Len(msgs) = 4
    /\ \A h \in 1..3 : msgs[h + 1].at - msgs[h].at = PollInterval
    /\ Honored(1) /\ ~Honored(2) /\ ~Honored(3) /\ Honored(4)
    /\ lastScannerRequest[1] = msgs[4].at

\* the text that the exec callback classifies: standard error, or the error
\* message when standard error is empty
ClassifiedText(outcome) ==
    IF outcome.stderr # <<>> THEN outcome.stderr ELSE outcome.message

\* C26: the executor classifies the error text of a failed scan process by an
\* ordered rule list, first match wins: 'Result code: 0x80210015' gives the
\* device-busy error, else 'Result code: 0x80210006' the feed-empty error, else
\* 'Access is denied' the access-denied error, else the raw text; the text is
\* standard error, or the error message when standard error is empty. The
\* executor's error is what the handler's catch then turns into the envelope.
C26_OrderedClassification ==
    [][\A h \in Handlers : \A outcome \in ScanFailures :
         (ScanExit(h, outcome) /\ ~msgs[h].isHandled)
         => LET text == ClassifiedText(outcome)
                busy == Includes(text, <<"Result", "code:", "0x80210015">>)
                feed == Includes(text, <<"Result", "code:", "0x80210006">>)
                access == Includes(text, <<"Access", "is", "denied">>)
                rejected ==
                    CASE busy -> ScannerInUse
                      [] ~busy /\ feed -> NoDocument
                      [] ~busy /\ ~feed /\ access -> AccessDeniedAdmin
                      [] OTHER -> text
            IN  msgs'[h].sent = <<ErrorEnvelope(InnerCatchMessage(rejected))>>]_vars

\* a failed scan whose error text had both 'Access is denied' and the
\* feed-empty result code was classified as feed-empty
C26_Witness ==
    \E h \in Handlers :
        /\ msgs[h].proc = "exited"
        /\ msgs[h].timer = "cleared"
        /\ msgs[h].sent = <<ErrorEnvelope(<<"Scanning", "failed:">> \o NoDocument)>>

\* start-scan requests whose deviceId is missing or empty
NoDeviceIdScans == { StartScanNoId, StartScanEmptyId }

\* C27: a start-scan request whose deviceId is missing or empty is answered with
\* exactly one error envelope, spawns no external process, and leaves the
\* connection open and the session state (throttle timestamp and fingerprint)
\* unchanged; nothing happens for it afterwards.
C27_NoDeviceIdAnsweredAtOnce ==
    /\ [](\A h \in Handlers :
            msgs[h].raw \in NoDeviceIdScans =>
                /\ Len(msgs[h].sent) = 1
                /\ msgs[h].sent[1] = ErrorEnvelope(OuterCatchMessage(NoDeviceIdProvided))
                /\ msgs[h].spawned = <<>>
                /\ msgs[h].proc # "running"
                /\ msgs[h].pc = "done")
    /\ [][(Receiving /\ Arrived.raw \in NoDeviceIdScans) =>
            /\ connState[Arrived.conn] = "open"
            /\ connState' = connState
            /\ lastScannerRequest' = lastScannerRequest
            /\ scannerCache' = scannerCache]_vars

\* a start-scan with an empty deviceId was answered on a connection whose
\* session state had been set by an earlier device-list request
C27_Witness ==
    \E h \in Handlers :
        /\ msgs[h].raw = StartScanEmptyId
        /\ Len(msgs[h].sent) = 1
        /\ connState[msgs[h].conn] = "open"
        /\ lastScannerRequest[msgs[h].conn] # 0
        /\ scannerCache[msgs[h].conn] # <<>>
        /\ outbox[msgs[h].conn][Len(outbox[msgs[h].conn])] = h

\* C28: only an honored get-scanners request changes session state. The
\* throttle timestamp of a connection changes only in the step that receives a
\* get-scanners request which passes the throttle; its fingerprint changes only
\* in the step in which the listing of such a request ends; so whether a
\* get-scanners request is honored depends only on the honored get-scanners
\* requests before it, whatever other messages lie in between.
C28_OnlyHonoredListChangesSession ==
    /\ [][\A c \in Conns :
            /\ lastScannerRequest'[c] # lastScannerRequest[c] =>
                 /\ Receiving
                 /\ Arrived.conn = c
                 /\ Arrived.raw = GetScanners
                 /\ Arrived.spawned # <<>>
            /\ scannerCache'[c] # scannerCache[c] =>
                 \E h \in Handlers :
                    /\ msgs[h].conn = c
                    /\ Honored(h)
                    /\ msgs[h].pc # "done"
                    /\ msgs'[h].pc = "done"]_vars
    /\ [](\A h \in Handlers :
            IsGetScanners(h) =>
               ( Honored(h) <=>
                   \/ HonoredBefore(msgs[h].conn, h) = {}
                   \/ msgs[h].at - msgs[LastOf(HonoredBefore(msgs[h].conn, h))].at
                        >= SCANNER_REQUEST_THROTTLE ))

\* a get-scanners request that arrived right after a start-scan whose
\* enumeration was still running was honored
C28_Witness ==
    \E i, j \in Handlers :
        /\ i < j
        /\ msgs[i].raw = StartScanWia
        /\ msgs[i].pc \in {"list", "listVersion"}
        /\ msgs[j].raw = GetScanners
        /\ msgs[j].at = msgs[i].at
        /\ Honored(j)
        /\ lastScannerRequest[1] = msgs[j].at

\* C29: in every step in which a handler sends a scanners-list envelope, the
\* fingerprint stored for its connection after the step is the digest (the
\* id:origin pairs in order) of the device list in that envelope, whatever the
\* order in which the handlers of the connection complete.
C29_FingerprintIsOfLastList ==
    [][\A h \in Handlers :
         ( /\ Len(msgs'[h].sent) = Len(msgs[h].sent) + 1
           /\ msgs'[h].sent[Len(msgs'[h].sent)].type = "scanners-list" )
         => scannerCache'[msgs[h].conn]
              = scannerKey(msgs'[h].sent[Len(msgs'[h].sent)].data)]_vars

\* two honored requests completed in the reverse of their request order with
\* different device lists, and the fingerprint is that of the list sent last
C29_Witness ==
    \E i, j \in Handlers :
        /\ i < j
        /\ msgs[i].conn = msgs[j].conn
        /\ outbox[msgs[i].conn] = <<j, i>>
        /\ msgs[i].sent[1].type = "scanners-list"
        /\ msgs[j].sent[1].type = "scanners-list"
        /\ msgs[i].sent[1].data # msgs[j].sent[1].data
        /\ scannerCache[msgs[i].conn] = scannerKey(msgs[i].sent[1].data)
        /\ scannerCache[msgs[i].conn] # scannerKey(msgs[j].sent[1].data)

\* the handlers of connection c whose listing process is running
ListingInFlight(c) ==
    { h \in Handlers : msgs[h].conn = c /\ msgs[h].pc \in {"list", "listVersion"} }

ScansRunning(id) ==
    { h \in Handlers : msgs[h].proc = "running" /\ msgs[h].scanDeviceId = id }

\* C31 (as claimed): at no time are two scan child processes running against
\* the same device id.
C31_OneScanProcessPerDevice ==
    \A i, j \in Handlers :
        (i # j /\ msgs[i].proc = "running" /\ msgs[j].proc = "running")
        => msgs[i].scanDeviceId # msgs[j].scanDeviceId

\* C31 (amended): nothing holds a scan back. A start-scan for a real device
\* spawns its scan process in the step in which its own enumeration ends,
\* whatever scan processes are running for that device on the same or another
\* connection; and the timer that answers a scan with Timeout leaves the
\* process of that scan running.
C31_ScanSpawnedWhateverIsRunning ==
    [][ \A h \in Handlers :
          /\ ( /\ msgs[h].pc \in {"list", "listVersion"}
               /\ msgs'[h].pc \notin {"list", "listVersion"}
               /\ IsStartScan(h) )
             => /\ msgs'[h].proc = "running"
                /\ msgs'[h].spawned = Append(msgs[h].spawned, "scan")
                /\ \A g \in Handlers \ {h} : msgs'[g].proc = msgs[g].proc
          /\ (msgs[h].timer = "armed" /\ msgs'[h].timer = "fired")
             => /\ msgs'[h].proc = msgs[h].proc
                /\ msgs'[h].sent = Append(msgs[h].sent, TimeoutEnvelope) ]_vars

\* a scan answered with Timeout whose process is still running, and the scan
\* process of a later start-scan from another connection running against the
\* same device
C31_Witness ==
    \E i, j \in Handlers :
        /\ i < j
        /\ msgs[i].conn # msgs[j].conn
        /\ msgs[i].timer = "fired" /\ msgs[i].sent = <<TimeoutEnvelope>>
        /\ {i, j} \subseteq ScansRunning(msgs[i].scanDeviceId)

(***************************************************************************)
(* C32: envelopes per inbound message.                                     *)
(***************************************************************************)
\* the envelopes of message h delivered on connection c
Delivered(c, h) == { i \in 1..Len(outbox[c]) : outbox[c][i] = h }

\* a get-scanners request that arrived inside the throttle window
ThrottledRequest(h) == IsGetScanners(h) /\ ~Honored(h)

\* C32: every inbound message causes at most one outbound envelope, on its own
\* connection only, and a message whose handler has returned caused exactly
\* one unless it is a throttled get-scanners request, which caused none; on a
\* connection that is still open that envelope was delivered. So no
\* start-scan is answered with both a scan-complete and an error envelope,
\* and no message with two error envelopes.
C32_OneEnvelopePerMessage ==
    \A h \in Handlers :
        /\ Len(msgs[h].sent) <= 1
        /\ \A c \in Conns :
              Cardinality(Delivered(c, h)) <=
                 (IF c = msgs[h].conn THEN Len(msgs[h].sent) ELSE 0)
        /\ msgs[h].pc = "done" =>
              /\ Len(msgs[h].sent) = (IF ThrottledRequest(h) THEN 0 ELSE 1)
              /\ connState[msgs[h].conn] = "open" =>
                    Cardinality(Delivered(msgs[h].conn, h)) = Len(msgs[h].sent)

\* a start-scan answered with Timeout whose scan process ended afterwards:
\* its one envelope is the Timeout error, delivered once
C32_Witness ==
    \E h \in Handlers :
        /\ IsStartScan(h)
        /\ msgs[h].timer = "fired" /\ msgs[h].proc = "exited"
        /\ msgs[h].sent = <<TimeoutEnvelope>>
        /\ Delivered(msgs[h].conn, h) # {}

====
